---- MODULE Spec2Model ----
(***************************************************************************)
(* Chunk streaming of the Fortune game (src/src/world.rs, setup.rs,        *)
(* player.rs, resources.rs, constants.rs) as a state machine.              *)
(*                                                                         *)
(* One frame of the Update schedule runs every system once, in an order    *)
(* the scheduler chooses (main.rs adds the systems as an unordered tuple); *)
(* the spawn / despawn commands the systems queue are applied when the     *)
(* schedule ends.  `ran` is the set of systems that already ran in the     *)
(* current frame, `commands` the queue of deferred commands.               *)
(*                                                                         *)
(* The world is scaled down: constants.rs has CHUNK_SIZE = 16, a map of    *)
(* 256 x 256 chunks and RENDER_DISTANCE = 5; the definitions of the same   *)
(* names below are the scaled sizes the model is explored with.            *)
(***************************************************************************)
EXTENDS Integers, Sequences, FiniteSets, TLC

VARIABLES
    tiles,                \* WorldData.tiles: the flat tile grid
    chunks,               \* WorldData.chunks: IVec2 -> ChunkData
    player,               \* translation (x, z) of the Player entity, whole units
    chunk_border_visible, \* ChunkBorderVisible.0
    entities,             \* the live entities of the chunk hierarchy
    commands,             \* deferred commands of the current frame
    ran,                  \* systems that already ran in the current frame
    f3_presses,           \* number of F3 key presses so far
    viewer_chunk,         \* history: the player_chunk of the latest manage_world_chunks
                          \* run, as a set ({} before the first run)
    probe_builds,         \* history: the distinct results of the builds of ProbeChunk
    probe_rebuilt,        \* history: ProbeChunk was built, evicted and built again
    probe_bordered,       \* history: the latest build of ProbeChunk drew borders
    probe_kills,          \* history: the tiles of ProbeChunk whose enemy was shot
    fn,                   \* the latest call of the function-level specification
    explored_chunks,      \* WorldData.explored_chunks
    io                    \* setup's map file, BufReader and read loop

world == <<tiles, chunks, player, chunk_border_visible, entities, commands, ran, f3_presses>>
history == <<viewer_chunk, probe_builds, probe_rebuilt, probe_bordered, probe_kills>>
extra == <<explored_chunks, io>>
vars == <<world, history, fn, extra>>

----------------------------------------------------------------------------
(* Sizes.                                                                  *)

CHUNK_SIZE == 2
NUM_CHUNKS_X == 4
NUM_CHUNKS_Y == 3
RENDER_DISTANCE == 1
TILE_SIZE == 1
MaxStep == 3
MaxF3Presses == 1
TruncatedLen == 21

MAP_WIDTH == NUM_CHUNKS_X * CHUNK_SIZE
MAP_HEIGHT == NUM_CHUNKS_Y * CHUNK_SIZE

I32_MAX == 2147483647
I32_MIN == (-I32_MAX) - 1

----------------------------------------------------------------------------
(* Tile types and decoding.                                                *)

TileType == {"Grass", "Water", "Desert", "Stone", "Wood", "Unknown"}

\* the decoder with the codes of Water and Desert exchanged
from_u16_swapped(value) ==
    CASE value = 0 -> "Grass"
      [] value = 1 -> "Desert"
      [] value = 2 -> "Water"
      [] value = 3 -> "Stone"
      [] value = 4 -> "Wood"
      [] OTHER -> "Unknown"

from_u16(value) ==
    CASE value = 0 -> "Grass"
      [] value = 1 -> "Water"
      [] value = 2 -> "Desert"
      [] value = 3 -> "Stone"
      [] value = 4 -> "Wood"
      [] OTHER -> "Unknown"

----------------------------------------------------------------------------
(* 32-bit signed arithmetic.  A value is a record [v, of]: the wrapped     *)
(* result and whether an operation that produced it overflowed.  An        *)
(* overflowing operation panics when the build has overflow checks (the    *)
(* dev profile) and wraps when it has none (the release profile).          *)

I32(x) == [v |-> x, of |-> FALSE]

AddOverflows(a, b) ==
    \/ a >= 0 /\ b >= 0 /\ a > I32_MAX - b
    \/ a < 0 /\ b < 0 /\ a < I32_MIN - b

\* a + b modulo 2^32 in two's complement, without leaving the 32-bit range
WrapAdd(a, b) ==
    IF a >= 0 /\ b >= 0 /\ a > I32_MAX - b
        THEN ((a - I32_MAX) - 1) + ((b - I32_MAX) - 1)
    ELSE IF a < 0 /\ b < 0 /\ a < I32_MIN - b
        THEN ((a + I32_MAX) + 1) + ((b + I32_MAX) + 1)
    ELSE a + b

I32Add(a, b) ==
    [v |-> WrapAdd(a.v, b.v), of |-> a.of \/ b.of \/ AddOverflows(a.v, b.v)]

RECURSIVE I32Mul(_, _)
\* a * k for a small constant k >= 0, as k additions: the wrapped product is
\* the wrapped sum, and the product overflows exactly when a partial sum does.
I32Mul(a, k) ==
    IF k = 0 THEN I32(0) ELSE I32Add(I32Mul(a, k - 1), a)

----------------------------------------------------------------------------
(* The tile grid.                                                          *)

\* Vec indexing: a read past the end panics
OutOfBoundsPanic == "index out of bounds"

VecIndex(v, index) ==
    IF index >= 0 /\ index < Len(v) THEN v[index + 1] ELSE OutOfBoundsPanic

\* get_tile_at_position without the test of the index against tiles.len()
get_tile_unchecked(world_tiles, x, y) ==
    IF x >= 0 /\ x < MAP_WIDTH /\ y >= 0 /\ y < MAP_HEIGHT
        THEN VecIndex(world_tiles, y * MAP_WIDTH + x)
        ELSE "Unknown"

get_tile_at_position(world_tiles, x, y) ==
    IF x >= 0 /\ x < MAP_WIDTH /\ y >= 0 /\ y < MAP_HEIGHT
        THEN LET index == y * MAP_WIDTH + x
             IN  IF index < Len(world_tiles)
                     THEN VecIndex(world_tiles, index)
                     ELSE "Unknown"
        ELSE "Unknown"

\* generate_chunk_from_map with the two tile indices exchanged
generate_chunk_transposed(world_tiles, chunk_pos, overflow_checks) ==
    LET start_x == I32Mul(I32(chunk_pos[1]), CHUNK_SIZE)
        start_y == I32Mul(I32(chunk_pos[2]), CHUNK_SIZE)
    IN  [panicked |-> FALSE,
         data |-> [position |-> chunk_pos,
                   tiles |-> [y \in 0..(CHUNK_SIZE - 1) |->
                                [x \in 0..(CHUNK_SIZE - 1) |->
                                    get_tile_at_position(world_tiles,
                                                         I32Add(start_x, I32(y)).v,
                                                         I32Add(start_y, I32(x)).v)]]]]

\* ChunkData of a coordinate.  The result records whether the i32 arithmetic
\* panicked (possible only with overflow checks); `data` is the ChunkData
\* that is returned when it did not.
generate_chunk_from_map(world_tiles, chunk_pos, overflow_checks) ==
    LET start_x == I32Mul(I32(chunk_pos[1]), CHUNK_SIZE)
        start_y == I32Mul(I32(chunk_pos[2]), CHUNK_SIZE)
        world_x(x) == I32Add(start_x, I32(x))
        world_y(y) == I32Add(start_y, I32(y))
        overflowed == \E k \in 0..(CHUNK_SIZE - 1) : world_x(k).of \/ world_y(k).of
    IN  [panicked |-> overflow_checks /\ overflowed,
         data |-> [position |-> chunk_pos,
                   tiles |-> [y \in 0..(CHUNK_SIZE - 1) |->
                                [x \in 0..(CHUNK_SIZE - 1) |->
                                    get_tile_at_position(world_tiles,
                                                         world_x(x).v,
                                                         world_y(y).v)]]]]

----------------------------------------------------------------------------
(* Map files and setup.  A file is the sequence of its little-endian u16   *)
(* values.                                                                 *)

\* the value a four-quadrant map has at tile (x, y); two tiles carry codes
\* outside 0..3 (Wood, and a code no tile type has)
QuadrantValue(x, y) ==
    IF x = 1 /\ y = 0 THEN 4
    ELSE IF x = 0 /\ y = 1 THEN 9
    ELSE IF x < MAP_WIDTH \div 2
        THEN (IF y < MAP_HEIGHT \div 2 THEN 0 ELSE 2)
        ELSE (IF y < MAP_HEIGHT \div 2 THEN 1 ELSE 3)

FullFile ==
    [k \in 1..(MAP_WIDTH * MAP_HEIGHT) |->
        QuadrantValue((k - 1) % MAP_WIDTH, (k - 1) \div MAP_WIDTH)]

TruncatedFile == SubSeq(FullFile, 1, TruncatedLen)

EmptyFile == <<>>

MapFiles == {FullFile, TruncatedFile, EmptyFile}

\* setup, file found: one tile per u16 read
LoadTiles(file) == [k \in 1..Len(file) |-> from_u16(file[k])]

\* setup, file not found
DefaultTiles == [k \in 1..(MAP_WIDTH * MAP_HEIGHT) |-> "Grass"]

LoadedGrids == {LoadTiles(f) : f \in MapFiles} \cup {DefaultTiles}

EmptyMap == [c \in {} |-> 0]

StartPosition == <<MAP_WIDTH \div 2, MAP_HEIGHT \div 2>>

----------------------------------------------------------------------------
(* Entities of the chunk hierarchy.  A chunk parent entity is identified   *)
(* by its coordinate and a serial n that tells apart several parents of    *)
(* one coordinate; a child carries the (pos, n) of its parent, its kind    *)
(* and its slot (the border side, or the local tile of a decoration).      *)
(* `at` is the translation of the entity's own Transform on the XZ plane,  *)
(* in half units (the border boxes sit at half lengths).                   *)

Ent(kind, pos, n, slot, at) ==
    [kind |-> kind, pos |-> pos, n |-> n, slot |-> slot, at |-> at]

IsParentOf(p, e) == p.kind = "chunk" /\ e.kind # "chunk" /\ e.pos = p.pos /\ e.n = p.n

ChunkEntities(ents) == {e \in ents : e.kind = "chunk"}

SpawnCmd(e) == [op |-> "spawn", ent |-> e]
DespawnRecursiveCmd(e) == [op |-> "despawn_recursive", ent |-> e]
DespawnCmd(e) == [op |-> "despawn", ent |-> e]

Range(q) == {q[k] : k \in 1..Len(q)}

Spawned(q) == {c.ent : c \in {d \in Range(q) : d.op = "spawn"}}

\* the id commands.spawn reserves: one no live or already reserved parent has
FreeSerial(pos, taken) ==
    LET used == {e.n : e \in {t \in ChunkEntities(taken) : t.pos = pos}}
    IN  CHOOSE k \in 0..Cardinality(used) :
            k \notin used /\ \A j \in 0..(k - 1) : j \in used

\* DefaultHasher over the two i32 writes.  SipHash itself is not modelled:
\* this is a fixed total function of the tile's world coordinate whose values
\* fall in every residue band the decoration policy tells apart
\* (0 mod 200; 100 mod 200; 50 mod 100; none of them).
Hash(wx, wy) ==
    LET s == (wx * 3 + wy * 5) % 11
    IN  CASE s = 0 -> 1000
          [] s = 4 -> 300
          [] s = 7 -> 450
          [] OTHER -> 1001 + 7 * s

\* the loop body with the enemy check and the biome match exclusive of each
\* other (an `else` before the match)
tile_decorations_exclusive(tile_type, hash) ==
    IF tile_type # "Water" /\ hash % 200 = 0 THEN <<"enemy">>
    ELSE CASE tile_type = "Desert" -> (IF hash % 50 = 0 THEN <<"cactus">> ELSE <<>>)
           [] tile_type = "Grass" -> (IF hash % 100 = 0 THEN <<"tree">> ELSE <<>>)
           [] OTHER -> <<>>

\* the kinds one iteration of the loop body spawns on a tile, in order: the
\* enemy check, then the match on the tile type
tile_decorations(tile_type, hash) ==
    LET enemy == IF tile_type # "Water" /\ hash % 200 = 0 THEN <<"enemy">> ELSE <<>>
        biome == CASE tile_type = "Desert" ->
                          (IF hash % 50 = 0 THEN <<"cactus">> ELSE <<>>)
                   [] tile_type = "Grass" ->
                          (IF hash % 100 = 0 THEN <<"tree">> ELSE <<>>)
                   [] OTHER -> <<>>
    IN  enemy \o biome

RECURSIVE DecorationLoop(_, _, _)
\* the nested loops of spawn_chunk_decorations from iteration k on
\* (i = k \div CHUNK_SIZE is the outer index, j = k % CHUNK_SIZE the inner)
DecorationLoop(k, chunk_data, parent) ==
    IF k >= CHUNK_SIZE * CHUNK_SIZE THEN <<>>
    ELSE
        LET i == k \div CHUNK_SIZE
            j == k % CHUNK_SIZE
            tile_type == chunk_data.tiles[j][i]
            hash == Hash(chunk_data.position[1] * CHUNK_SIZE + i,
                         chunk_data.position[2] * CHUNK_SIZE + j)
            world_x == (chunk_data.position[1] * CHUNK_SIZE + i) * TILE_SIZE
            world_z == (chunk_data.position[2] * CHUNK_SIZE + j) * TILE_SIZE
            child(kind) == SpawnCmd(Ent(kind, parent.pos, parent.n, <<i, j>>,
                                        <<2 * world_x, 2 * world_z>>))
            kinds == tile_decorations(tile_type, hash)
        IN  [n \in 1..Len(kinds) |-> child(kinds[n])]
                \o DecorationLoop(k + 1, chunk_data, parent)

RECURSIVE DecorationLoopSeeded(_, _, _)
\* the decoration loop with the hash taken of the viewer's position instead
\* of the tile's world coordinate
DecorationLoopSeeded(k, chunk_data, parent) ==
    IF k >= CHUNK_SIZE * CHUNK_SIZE THEN <<>>
    ELSE
        LET i == k \div CHUNK_SIZE
            j == k % CHUNK_SIZE
            tile_type == chunk_data.tiles[j][i]
            hash == Hash(player[1] + i, player[2] + j)
            child(kind) == SpawnCmd(Ent(kind, parent.pos, parent.n, <<i, j>>, <<0, 0>>))
            enemy == IF tile_type # "Water" /\ hash % 200 = 0
                         THEN <<child("enemy")>> ELSE <<>>
            biome == CASE tile_type = "Desert" ->
                              (IF hash % 50 = 0 THEN <<child("cactus")>> ELSE <<>>)
                       [] tile_type = "Grass" ->
                              (IF hash % 100 = 0 THEN <<child("tree")>> ELSE <<>>)
                       [] OTHER -> <<>>
        IN  enemy \o biome \o DecorationLoopSeeded(k + 1, chunk_data, parent)

RECURSIVE DecorationLoopTransposed(_, _, _)
\* the decoration loop reading tiles[i][j] for the tile at local (i, j)
DecorationLoopTransposed(k, chunk_data, parent) ==
    IF k >= CHUNK_SIZE * CHUNK_SIZE THEN <<>>
    ELSE
        LET i == k \div CHUNK_SIZE
            j == k % CHUNK_SIZE
            tile_type == chunk_data.tiles[i][j]
            hash == Hash(chunk_data.position[1] * CHUNK_SIZE + i,
                         chunk_data.position[2] * CHUNK_SIZE + j)
            world_x == (chunk_data.position[1] * CHUNK_SIZE + i) * TILE_SIZE
            world_z == (chunk_data.position[2] * CHUNK_SIZE + j) * TILE_SIZE
            child(kind) == SpawnCmd(Ent(kind, parent.pos, parent.n, <<i, j>>,
                                        <<2 * world_x, 2 * world_z>>))
            enemy == IF tile_type # "Water" /\ hash % 200 = 0
                         THEN <<child("enemy")>> ELSE <<>>
            biome == CASE tile_type = "Desert" ->
                              (IF hash % 50 = 0 THEN <<child("cactus")>> ELSE <<>>)
                       [] tile_type = "Grass" ->
                              (IF hash % 100 = 0 THEN <<child("tree")>> ELSE <<>>)
                       [] OTHER -> <<>>
        IN  enemy \o biome \o DecorationLoopTransposed(k + 1, chunk_data, parent)

spawn_chunk_decorations_transposed(chunk_data, parent) ==
    DecorationLoopTransposed(0, chunk_data, parent)

spawn_chunk_decorations_seeded(chunk_data, parent) ==
    DecorationLoopSeeded(0, chunk_data, parent)

\* the decoration pass that leaves out the enemies of tiles whose enemy was
\* shot before
spawn_chunk_decorations_remembering(chunk_data, parent) ==
    SelectSeq(DecorationLoop(0, chunk_data, parent),
              LAMBDA c : ~(/\ c.ent.kind = "enemy"
                           /\ c.ent.pos = <<0, 0>>
                           /\ c.ent.slot \in probe_kills))

spawn_chunk_decorations(chunk_data, parent) == DecorationLoop(0, chunk_data, parent)

\* TLC hands a recursive call its arguments unevaluated; the loops below test
\* Evaluated(next) so that each iteration's state is computed in its turn
Evaluated(x) == x = x

\* the local tiles the mesh loop emits a quad for
MeshTiles(chunk_data) ==
    {t \in (0..(CHUNK_SIZE - 1)) \X (0..(CHUNK_SIZE - 1)) :
        chunk_data.tiles[t[2]][t[1]] # "Water"}

\* TileType::get_color, as (r, g, b) in tenths
get_color(tile_type) ==
    CASE tile_type = "Grass" -> <<1, 8, 1>>
      [] tile_type = "Water" -> <<1, 1, 8>>
      [] tile_type = "Desert" -> <<8, 7, 4>>
      [] tile_type = "Stone" -> <<5, 5, 5>>
      [] tile_type = "Wood" -> <<6, 3, 1>>
      [] tile_type = "Unknown" -> <<10, 0, 10>>

\* the vertex and index buffers before the first tile
EmptyMesh ==
    [positions |-> <<>>, normals |-> <<>>, uvs |-> <<>>, colors |-> <<>>,
     indices |-> <<>>, vertex_count |-> 0]

\* the quad of local tile (x, y) appended to the buffers, its two triangles
\* being (0, 1, 2) and (0, 2, 3) of its four vertices
PushQuadClockwise(mesh, x, y, tile_type) ==
    LET tile_color == get_color(tile_type)
        x_pos == x * TILE_SIZE
        z_pos == y * TILE_SIZE
        vertex_count == mesh.vertex_count
    IN  [positions |-> mesh.positions \o
                         << <<x_pos, 0, z_pos>>,
                            <<x_pos + TILE_SIZE, 0, z_pos>>,
                            <<x_pos + TILE_SIZE, 0, z_pos + TILE_SIZE>>,
                            <<x_pos, 0, z_pos + TILE_SIZE>> >>,
         normals |-> mesh.normals \o [n \in 1..4 |-> <<0, 1, 0>>],
         uvs |-> mesh.uvs \o << <<0, 0>>, <<1, 0>>, <<1, 1>>, <<0, 1>> >>,
         colors |-> mesh.colors \o [n \in 1..4 |-> tile_color],
         indices |-> mesh.indices \o
                       <<vertex_count, vertex_count + 1, vertex_count + 2,
                         vertex_count, vertex_count + 2, vertex_count + 3>>,
         vertex_count |-> vertex_count + 4]

\* the body of the mesh loop for a tile that is not Water
PushQuad(mesh, x, y, tile_type) ==
    LET tile_color == get_color(tile_type)
        x_pos == x * TILE_SIZE
        z_pos == y * TILE_SIZE
        vertex_count == mesh.vertex_count
    IN  [positions |-> mesh.positions \o
                         << <<x_pos, 0, z_pos>>,
                            <<x_pos + TILE_SIZE, 0, z_pos>>,
                            <<x_pos + TILE_SIZE, 0, z_pos + TILE_SIZE>>,
                            <<x_pos, 0, z_pos + TILE_SIZE>> >>,
         normals |-> mesh.normals \o [n \in 1..4 |-> <<0, 1, 0>>],
         uvs |-> mesh.uvs \o << <<0, 0>>, <<1, 0>>, <<1, 1>>, <<0, 1>> >>,
         colors |-> mesh.colors \o [n \in 1..4 |-> tile_color],
         indices |-> mesh.indices \o
                       <<vertex_count, vertex_count + 2, vertex_count + 1,
                         vertex_count, vertex_count + 3, vertex_count + 2>>,
         vertex_count |-> vertex_count + 4]

RECURSIVE MeshLoopWithWater(_, _, _)
\* the mesh loop without the `continue` for Water tiles
MeshLoopWithWater(k, chunk_data, mesh) ==
    IF k >= CHUNK_SIZE * CHUNK_SIZE THEN mesh
    ELSE
        LET y == k \div CHUNK_SIZE
            x == k % CHUNK_SIZE
            next == PushQuad(mesh, x, y, chunk_data.tiles[y][x])
        IN  IF Evaluated(next) THEN MeshLoopWithWater(k + 1, chunk_data, next) ELSE mesh

RECURSIVE MeshLoop(_, _, _)
\* the nested loops of spawn_chunk's mesh construction from iteration k on
\* (y = k \div CHUNK_SIZE is the outer index, x = k % CHUNK_SIZE the inner)
MeshLoop(k, chunk_data, mesh) ==
    IF k >= CHUNK_SIZE * CHUNK_SIZE THEN mesh
    ELSE
        LET y == k \div CHUNK_SIZE
            x == k % CHUNK_SIZE
            tile_type == chunk_data.tiles[y][x]
            next == IF tile_type = "Water" THEN mesh ELSE PushQuad(mesh, x, y, tile_type)
        IN  IF Evaluated(next) THEN MeshLoop(k + 1, chunk_data, next) ELSE mesh

\* the buffers spawn_chunk hands to the Mesh (all empty on the placeholder path)
build_mesh(chunk_data) == MeshLoop(0, chunk_data, EmptyMesh)

\* the four border boxes: Top, Bottom, Left, Right (translations in half units)
BorderTranslations ==
    LET border_length == CHUNK_SIZE * TILE_SIZE
    IN  << <<border_length, 0>>,
           <<border_length, 2 * border_length>>,
           <<0, border_length>>,
           <<2 * border_length, border_length>> >>

\* spawn_chunk that returns without spawning anything when the chunk has no
\* quad
spawn_chunk_without_placeholder(chunk_data, border_visible, taken) ==
    LET parent == Ent("chunk", chunk_data.position,
                      FreeSerial(chunk_data.position, taken), <<0, 0>>,
                      <<2 * chunk_data.position[1] * CHUNK_SIZE * TILE_SIZE,
                        2 * chunk_data.position[2] * CHUNK_SIZE * TILE_SIZE>>)
    IN  IF MeshTiles(chunk_data) = {}
            THEN <<>>
            ELSE <<SpawnCmd(parent),
                   SpawnCmd(Ent("mesh", parent.pos, parent.n, <<0, 0>>, <<0, 0>>))>>
                 \o spawn_chunk_decorations(chunk_data, parent)

\* the commands spawn_chunk queues; `taken` are the entities alive or reserved
spawn_chunk(chunk_data, border_visible, taken) ==
    LET chunk_world_x == chunk_data.position[1] * CHUNK_SIZE * TILE_SIZE
        chunk_world_z == chunk_data.position[2] * CHUNK_SIZE * TILE_SIZE
        parent == Ent("chunk", chunk_data.position,
                      FreeSerial(chunk_data.position, taken), <<0, 0>>,
                      <<2 * chunk_world_x, 2 * chunk_world_z>>)
        mesh == Ent("mesh", parent.pos, parent.n, <<0, 0>>, <<0, 0>>)
        borders == [k \in 1..4 |->
                       SpawnCmd(Ent("border", parent.pos, parent.n, <<k - 1, 0>>,
                                    BorderTranslations[k]))]
    IN  IF MeshTiles(chunk_data) = {}
            THEN <<SpawnCmd(parent)>>
            ELSE <<SpawnCmd(parent), SpawnCmd(mesh)>>
                 \o (IF border_visible THEN borders ELSE <<>>)
                 \o spawn_chunk_decorations(chunk_data, parent)

----------------------------------------------------------------------------
(* manage_world_chunks.                                                    *)

\* f32 division followed by `as i32`: the quotient truncated towards zero
TruncDiv(a, d) == IF a >= 0 THEN a \div d ELSE -((-a) \div d)

player_chunk(translation) ==
    <<TruncDiv(translation[1], CHUNK_SIZE * TILE_SIZE),
      TruncDiv(translation[2], CHUNK_SIZE * TILE_SIZE)>>

max_chunk_x == MAP_WIDTH \div CHUNK_SIZE
max_chunk_y == MAP_HEIGHT \div CHUNK_SIZE

\* the boundary check with inclusive upper limits
InWorldBoundsInclusive(chunk_pos) ==
    /\ chunk_pos[1] >= 0
    /\ chunk_pos[1] <= max_chunk_x
    /\ chunk_pos[2] >= 0
    /\ chunk_pos[2] <= max_chunk_y

\* the check "chunk is within world boundaries"
InWorldBounds(chunk_pos) ==
    /\ chunk_pos[1] >= 0
    /\ chunk_pos[1] < max_chunk_x
    /\ chunk_pos[2] >= 0
    /\ chunk_pos[2] < max_chunk_y

\* the offsets of loops with exclusive upper limits (-R..R)
WindowOffsetsExclusive ==
    LET side == 2 * RENDER_DISTANCE
    IN  [k \in 1..(side * side) |->
            <<((k - 1) \div side) - RENDER_DISTANCE, ((k - 1) % side) - RENDER_DISTANCE>>]

\* the offsets (x, z) in the order the nested loops visit them
WindowOffsets ==
    LET side == 2 * RENDER_DISTANCE + 1
    IN  [k \in 1..(side * side) |->
            <<((k - 1) \div side) - RENDER_DISTANCE, ((k - 1) % side) - RENDER_DISTANCE>>]

Put(map, key, value) ==
    [c \in (DOMAIN map) \cup {key} |-> IF c = key THEN value ELSE map[c]]

Remove(map, key) == [c \in (DOMAIN map) \ {key} |-> map[c]]

\* the build condition without the contains_key test
NeedsBuildAlways(resident, chunk_pos) ==
    chunk_pos[1] >= 0 /\ chunk_pos[1] < MAP_WIDTH \div CHUNK_SIZE
        /\ chunk_pos[2] >= 0 /\ chunk_pos[2] < MAP_HEIGHT \div CHUNK_SIZE

\* the condition under which the load loop builds chunk_pos
NeedsBuild(resident, chunk_pos) ==
    InWorldBounds(chunk_pos) /\ chunk_pos \notin DOMAIN resident

RECURSIVE LoadLoop(_, _, _, _, _, _, _)
\* "Generate and spawn chunks around player", from offset k on.  acc carries
\* world_data.chunks, the command queue, chunks_to_keep and whether a
\* generate call panicked (which ends the system there).
LoadLoop(k, acc, world_tiles, center, border_visible, live, overflow_checks) ==
    IF k > Len(WindowOffsets) THEN acc
    ELSE
        LET chunk_pos == <<center[1] + WindowOffsets[k][1],
                           center[2] + WindowOffsets[k][2]>>
            kept == [acc EXCEPT !.keep = acc.keep \cup {chunk_pos}]
            gen == generate_chunk_from_map(world_tiles, chunk_pos, overflow_checks)
            taken == live \cup Spawned(acc.commands)
            next ==
                IF NeedsBuild(acc.chunks, chunk_pos)
                    THEN IF gen.panicked
                             THEN [kept EXCEPT !.panicked = TRUE]
                             ELSE [kept EXCEPT
                                     !.commands = acc.commands
                                         \o spawn_chunk(gen.data, border_visible, taken),
                                     !.chunks = Put(acc.chunks, chunk_pos, gen.data)]
                    ELSE kept
        IN  IF next.panicked THEN next
            ELSE LoadLoop(k + 1, next, world_tiles, center, border_visible, live,
                          overflow_checks)

Rank(e) == (e.pos[1] * (NUM_CHUNKS_Y + 1) + e.pos[2]) * 64 + e.n

RECURSIVE DespawnLoopMapOnly(_, _)
\* the despawn loop without the despawn_recursive command
DespawnLoopMapOnly(todo, acc) ==
    IF todo = {} THEN acc
    ELSE
        LET entity == CHOOSE e \in todo : TRUE
            next ==
                IF entity.pos \notin acc.keep /\ entity.pos \in DOMAIN acc.chunks
                    THEN [acc EXCEPT !.chunks = [c \in (DOMAIN acc.chunks) \ {entity.pos}
                                                    |-> acc.chunks[c]]]
                    ELSE acc
        IN  IF Evaluated(next) THEN DespawnLoopMapOnly(todo \ {entity}, next) ELSE acc

\* the despawn loop that never evicts
DespawnLoopNone(todo, acc) == acc

RECURSIVE DespawnLoopNonRecursive(_, _)
\* the despawn loop with despawn in place of despawn_recursive
DespawnLoopNonRecursive(todo, acc) ==
    IF todo = {} THEN acc
    ELSE
        LET entity == CHOOSE e \in todo : TRUE
            next ==
                IF entity.pos \notin acc.keep
                    THEN [acc EXCEPT
                            !.commands = Append(acc.commands, DespawnCmd(entity)),
                            !.chunks = [c \in (DOMAIN acc.chunks) \ {entity.pos}
                                           |-> acc.chunks[c]]]
                    ELSE acc
        IN  IF Evaluated(next) THEN DespawnLoopNonRecursive(todo \ {entity}, next) ELSE acc

RECURSIVE DespawnLoop(_, _)
\* "Despawn chunks that are too far away": the query yields the chunk
\* entities alive when the system started (todo), here in rank order.
DespawnLoop(todo, acc) ==
    IF todo = {} THEN acc
    ELSE
        LET entity == CHOOSE e \in todo : \A o \in todo : Rank(e) <= Rank(o)
            next ==
                IF entity.pos \notin acc.keep
                    THEN [acc EXCEPT
                            !.commands = Append(acc.commands, DespawnRecursiveCmd(entity)),
                            !.chunks = IF entity.pos \in DOMAIN acc.chunks
                                           THEN Remove(acc.chunks, entity.pos)
                                           ELSE acc.chunks]
                    ELSE acc
        IN  IF Evaluated(next) THEN DespawnLoop(todo \ {entity}, next) ELSE acc

\* the whole system: the chunks map and the command queue it leaves
manage_world_chunks(resident, queue, world_tiles, translation, border_visible, live, overflow_checks) ==
    LET start == [chunks |-> resident, commands |-> queue, keep |-> {},
                  panicked |-> FALSE]
        loaded == LoadLoop(1, start, world_tiles, player_chunk(translation),
                           border_visible, live, overflow_checks)
    IN  IF loaded.panicked THEN loaded
        ELSE DespawnLoop(ChunkEntities(live), loaded)

----------------------------------------------------------------------------
(* Deferred commands.                                                      *)

\* despawn_recursive: the entity and everything attached to it
DespawnRecursive(ents, e) == {x \in ents : ~(x = e \/ IsParentOf(e, x))}

ApplyCommand(ents, cmd) ==
    CASE cmd.op = "spawn" -> ents \cup {cmd.ent}
      [] cmd.op = "despawn_recursive" -> DespawnRecursive(ents, cmd.ent)
      [] cmd.op = "despawn" -> ents \ {cmd.ent}
      [] OTHER -> ents

RECURSIVE ApplyAll(_, _)
ApplyAll(ents, queue) ==
    IF queue = <<>> THEN ents
    ELSE LET next == ApplyCommand(ents, Head(queue))
         IN  IF Evaluated(next) THEN ApplyAll(next, Tail(queue)) ELSE ents

----------------------------------------------------------------------------
(* The program: setup, then frames of the Update schedule.                 *)

\* the systems of the Update schedule that the model runs
CoreSystems == {"player_movement", "manage_world_chunks"}
BorderSystems == CoreSystems \cup {"toggle_chunk_borders"}

ChunkCoords == (0..(max_chunk_x - 1)) \X (0..(max_chunk_y - 1))

DecorationKinds == {"enemy", "cactus", "tree"}

NoCall == [name |-> "none"]

\* no file is being read: setup has finished
NoLoad == [state |-> "loaded"]

\* the coordinate whose build history is recorded
ProbeChunk == <<0, 0>>

\* the state after App construction (main) and the Startup schedule (setup)
Init ==
    /\ tiles \in LoadedGrids
    /\ chunks = EmptyMap
    /\ player = StartPosition
    /\ chunk_border_visible = FALSE
    /\ entities = {}
    /\ commands = <<>>
    /\ ran = {}
    /\ f3_presses = 0
    /\ viewer_chunk = {}
    /\ probe_builds = {}
    /\ probe_rebuilt = FALSE
    /\ probe_bordered = FALSE
    /\ probe_kills = {}
    /\ fn = NoCall
    /\ explored_chunks = {}
    /\ io = NoLoad

\* player_movement without the clamp
ClampPositionMissing(new_pos) == new_pos

\* "Keep player within world bounds"
ClampPosition(new_pos) ==
    LET max_pos_x == (MAP_WIDTH - 1) * TILE_SIZE
        max_pos_z == (MAP_HEIGHT - 1) * TILE_SIZE
        clamp(v, lo, hi) == IF v < lo THEN lo ELSE IF v > hi THEN hi ELSE v
    IN  <<clamp(new_pos[1], 0, max_pos_x), clamp(new_pos[2], 0, max_pos_z)>>

\* direction * speed * delta_seconds per axis, in whole units: no movement,
\* or a stride longer than a chunk is wide
Steps == {-MaxStep, 0, MaxStep}

PlayerMovement ==
    /\ "player_movement" \notin ran
    /\ \E dx \in Steps, dz \in Steps :
         player' = IF dx = 0 /\ dz = 0
                       THEN player
                       ELSE ClampPosition(<<player[1] + dx, player[2] + dz>>)
    /\ ran' = ran \cup {"player_movement"}
    /\ UNCHANGED <<tiles, chunks, chunk_border_visible, entities, commands,
                   f3_presses, history, fn, extra>>

\* toggle_chunk_borders that also clears the resident map on a press, so
\* that every chunk is built again under the new flag
ToggleChunkBordersRebuilding ==
    /\ "toggle_chunk_borders" \notin ran
    /\ \E just_pressed_f3 \in BOOLEAN :
         /\ just_pressed_f3 => f3_presses < MaxF3Presses
         /\ chunk_border_visible' =
                IF just_pressed_f3 THEN ~chunk_border_visible ELSE chunk_border_visible
         /\ f3_presses' = IF just_pressed_f3 THEN f3_presses + 1 ELSE f3_presses
         /\ chunks' = IF just_pressed_f3 THEN EmptyMap ELSE chunks
    /\ ran' = ran \cup {"toggle_chunk_borders"}
    /\ UNCHANGED <<tiles, player, entities, commands, history, fn, extra>>

ToggleChunkBorders ==
    /\ "toggle_chunk_borders" \notin ran
    /\ \E just_pressed_f3 \in BOOLEAN :
         /\ just_pressed_f3 => f3_presses < MaxF3Presses
         /\ chunk_border_visible' =
                IF just_pressed_f3 THEN ~chunk_border_visible ELSE chunk_border_visible
         /\ f3_presses' = IF just_pressed_f3 THEN f3_presses + 1 ELSE f3_presses
    /\ ran' = ran \cup {"toggle_chunk_borders"}
    /\ UNCHANGED <<tiles, chunks, player, entities, commands, history, fn, extra>>

\* what one build of a coordinate produced: its ChunkData and the ordered
\* decoration placements among the commands queued for it
BuildResult(data, queue) ==
    LET decos == SelectSeq(queue, LAMBDA c :
                     c.op = "spawn" /\ c.ent.pos = data.position
                                    /\ c.ent.kind \in DecorationKinds)
    IN  [data |-> data,
         placements |-> [k \in 1..Len(decos) |->
                            <<decos[k].ent.slot, decos[k].ent.kind>>]]

ManageWorldChunks ==
    /\ "manage_world_chunks" \notin ran
    /\ \E overflow_checks \in BOOLEAN :
       \E r \in {manage_world_chunks(chunks, commands, tiles, player,
                                     chunk_border_visible, entities, overflow_checks)} :
       \E queued \in {SubSeq(r.commands, Len(commands) + 1, Len(r.commands))} :
       \E built \in {(DOMAIN r.chunks) \ (DOMAIN chunks)} :
         /\ ~r.panicked
         /\ chunks' = r.chunks
         /\ commands' = r.commands
         /\ viewer_chunk' = {player_chunk(player)}
         /\ probe_builds' =
                IF ProbeChunk \in built
                    THEN probe_builds \cup {BuildResult(r.chunks[ProbeChunk], queued)}
                    ELSE probe_builds
         /\ probe_rebuilt' = (probe_rebuilt \/ (ProbeChunk \in built /\ probe_builds # {}))
         /\ probe_bordered' =
                IF ProbeChunk \in built
                    THEN \E c \in Range(queued) :
                            c.op = "spawn" /\ c.ent.kind = "border" /\ c.ent.pos = ProbeChunk
                    ELSE probe_bordered
         /\ probe_kills' = probe_kills
    /\ ran' = ran \cup {"manage_world_chunks"}
    /\ UNCHANGED <<tiles, player, chunk_border_visible, entities, f3_presses, fn, extra>>

\* the end of the Update schedule: the queued commands take effect
ApplyDeferred(systems) ==
    /\ ran = systems
    /\ entities' = ApplyAll(entities, commands)
    /\ commands' = <<>>
    /\ ran' = {}
    /\ UNCHANGED <<tiles, chunks, player, chunk_border_visible, f3_presses, history, fn,
                   extra>>

\* frames in which F3 is never pressed (toggle_chunk_borders then changes
\* nothing, and its runs are left out)
Next ==
    \/ PlayerMovement
    \/ ManageWorldChunks
    \/ ApplyDeferred(CoreSystems)

Spec == Init /\ [][Next]_vars

\* frames with the F3 key
NextBorders ==
    \/ PlayerMovement
    \/ ToggleChunkBorders
    \/ ManageWorldChunks
    \/ ApplyDeferred(BorderSystems)

\* frames with the F3 key, on the four-quadrant map
InitBorders == Init /\ tiles = LoadTiles(FullFile)

SpecBorders == InitBorders /\ [][NextBorders]_vars

----------------------------------------------------------------------------
(* Calls of the pure functions with arguments from all over the i32 range. *)

FnTileXs == (-1..MAP_WIDTH) \cup {I32_MIN, I32_MAX}
FnTileYs == (-1..MAP_HEIGHT) \cup {I32_MIN, I32_MAX}
FnChunkInts == (-1..NUM_CHUNKS_X) \cup {I32_MIN, -1073741824, 1073741824, I32_MAX}

CallGetTile ==
    /\ \E x \in FnTileXs, y \in FnTileYs :
         fn' = [name |-> "get_tile_at_position", x |-> x, y |-> y,
                tile |-> get_tile_at_position(tiles, x, y)]
    /\ UNCHANGED <<world, history, extra>>

CallGenerateChunk ==
    /\ \E cx \in FnChunkInts, cy \in FnChunkInts, overflow_checks \in BOOLEAN :
       \E r \in {generate_chunk_from_map(tiles, <<cx, cy>>, overflow_checks)} :
         fn' = [name |-> "generate_chunk_from_map", chunk_pos |-> <<cx, cy>>,
                overflow_checks |-> overflow_checks,
                panicked |-> r.panicked, data |-> r.data]
    /\ UNCHANGED <<world, history, extra>>

NextFn == CallGetTile \/ CallGenerateChunk

SpecFn == Init /\ [][NextFn]_vars

----------------------------------------------------------------------------
(* Frames with update_explored_chunks, on the four-quadrant map, for a     *)
(* viewer walking east and west.                                           *)

\* update_explored_chunks that also drops the viewer's chunk from the
\* resident map
update_explored_chunks_evicting(world_data, translation) ==
    LET current_chunk == player_chunk(translation)
    IN  [world_data EXCEPT
            !.explored_chunks = world_data.explored_chunks \cup {current_chunk},
            !.chunks = [c \in (DOMAIN world_data.chunks) \ {current_chunk}
                           |-> world_data.chunks[c]]]

\* update_explored_chunks that remembers the latest chunk only
update_explored_chunks_latest(world_data, translation) ==
    [world_data EXCEPT !.explored_chunks = {player_chunk(translation)}]

\* the WorldData the system leaves
update_explored_chunks(world_data, translation) ==
    LET current_chunk == player_chunk(translation)
    IN  [world_data EXCEPT
            !.explored_chunks = world_data.explored_chunks \cup {current_chunk}]

UpdateExploredChunks ==
    /\ "update_explored_chunks" \notin ran
    /\ \E r \in {update_explored_chunks(
                    [tiles |-> tiles, chunks |-> chunks,
                     explored_chunks |-> explored_chunks], player)} :
         /\ tiles' = r.tiles
         /\ chunks' = r.chunks
         /\ explored_chunks' = r.explored_chunks
    /\ ran' = ran \cup {"update_explored_chunks"}
    /\ UNCHANGED <<player, chunk_border_visible, entities, commands, f3_presses,
                   history, fn, io>>

ExploreSystems == CoreSystems \cup {"update_explored_chunks"}

\* player_movement of a viewer who keeps to one row of the map
PlayerMovementAlongX == PlayerMovement /\ player'[2] = player[2]

NextExplore ==
    \/ PlayerMovementAlongX
    \/ UpdateExploredChunks
    \/ ManageWorldChunks
    \/ ApplyDeferred(ExploreSystems)

SpecExplore == InitBorders /\ [][NextExplore]_vars

----------------------------------------------------------------------------
(* Frames with update_explored_chunks for a viewer who walks along the row *)
(* and the column of the start position, up to the four edges of the map.  *)

\* player_movement of a viewer who keeps to the start position's row and column
PlayerMovementOnCross ==
    /\ PlayerMovement
    /\ player'[1] = StartPosition[1] \/ player'[2] = StartPosition[2]

NextRoam ==
    \/ PlayerMovementOnCross
    \/ UpdateExploredChunks
    \/ ManageWorldChunks
    \/ ApplyDeferred(ExploreSystems)

SpecRoam == InitBorders /\ [][NextRoam]_vars

----------------------------------------------------------------------------

(* Frames with shooting_system, on the four-quadrant map.                  *)

\* shooting_system: nothing, unless the left button was just pressed with the
\* gun drawn and aim_state.target_enemy is an enemy that still exists; then
\* the target's despawn is queued
ShootingSystem ==
    /\ "shooting_system" \notin ran
    /\ \/ UNCHANGED <<commands, probe_kills>>
       \/ \E target_entity \in {e \in entities : e.kind = "enemy"} :
            /\ commands' = Append(commands, DespawnCmd(target_entity))
            /\ probe_kills' = IF target_entity.pos = ProbeChunk
                                  THEN probe_kills \cup {target_entity.slot}
                                  ELSE probe_kills
    /\ ran' = ran \cup {"shooting_system"}
    /\ UNCHANGED <<tiles, chunks, player, chunk_border_visible, entities, f3_presses,
                   viewer_chunk, probe_builds, probe_rebuilt, probe_bordered, fn, extra>>

CombatSystems == CoreSystems \cup {"shooting_system"}

NextCombat ==
    \/ PlayerMovement
    \/ ShootingSystem
    \/ ManageWorldChunks
    \/ ApplyDeferred(CombatSystems)

SpecCombat == InitBorders /\ [][NextCombat]_vars

----------------------------------------------------------------------------

(* Single calls of the decoders and of the decoration pass: each behaviour *)
(* makes one call, whose arguments and result `fn` records.                *)

\* a u16 read from a map file
U16Values == (0..8) \cup {255, 256, 999, 65535}

\* the discriminant of a TileType variant (`as u16`)
Ordinal(tile) ==
    CASE tile = "Grass" -> 0
      [] tile = "Water" -> 1
      [] tile = "Desert" -> 2
      [] tile = "Stone" -> 3
      [] tile = "Wood" -> 4
      [] tile = "Unknown" -> 5

\* a ChunkData whose column lx = 0 is of type first and whose other columns
\* are of type rest
StripedChunk(chunk_pos, first, rest) ==
    [position |-> chunk_pos,
     tiles |-> [ly \in 0..(CHUNK_SIZE - 1) |->
                   [lx \in 0..(CHUNK_SIZE - 1) |-> IF lx = 0 THEN first ELSE rest]]]

CallFromU16 ==
    /\ fn = NoCall
    /\ \E value \in U16Values :
         fn' = [name |-> "from_u16", value |-> value, tile |-> from_u16(value)]
    /\ UNCHANGED <<world, history, extra>>

CallSpawnChunkDecorations ==
    /\ fn = NoCall
    /\ \E chunk_pos \in ChunkCoords, first \in TileType, rest \in TileType :
       \E chunk_data \in {StripedChunk(chunk_pos, first, rest)} :
         fn' = [name |-> "spawn_chunk_decorations", data |-> chunk_data,
                placements |->
                    spawn_chunk_decorations(chunk_data,
                        Ent("chunk", chunk_pos, 0, <<0, 0>>, <<0, 0>>))]
    /\ UNCHANGED <<world, history, extra>>

\* --- the map_loader module ---

\* map_loader's own MAP_SIZE (tiles per side of its square map)
MAP_SIZE == 1

MapTileType == {"Grass", "Desert", "Water", "Rock", "Sand"}

MapTileType_from_u16(value) ==
    CASE value = 0 -> "Grass"
      [] value = 1 -> "Desert"
      [] value = 2 -> "Water"
      [] value = 3 -> "Rock"
      [] value = 4 -> "Sand"
      [] OTHER -> "Grass"

\* the bytes a file may hold, and the files up to MaxFileBytes bytes
ByteValues == {0, 1, 2}
MaxFileBytes == 4
ByteFiles == UNION {[1..n -> ByteValues] : n \in 0..MaxFileBytes}

\* u16::from_le_bytes
from_le_bytes(b0, b1) == b0 + 256 * b1

\* GameMap::new: tiles[z][x], all Grass
GameMap_new == [z \in 0..(MAP_SIZE - 1) |-> [x \in 0..(MAP_SIZE - 1) |-> "Grass"]]

\* GameMap::load_from_file on a file that opens and reads: Err on any length
\* but MAP_SIZE * MAP_SIZE * 2
GameMap_load_from_file(buffer) ==
    IF Len(buffer) # MAP_SIZE * MAP_SIZE * 2
        THEN [ok |-> FALSE, error |-> "Invalid map file size", tiles |-> GameMap_new]
        ELSE [ok |-> TRUE, error |-> "",
              tiles |-> [z \in 0..(MAP_SIZE - 1) |-> [x \in 0..(MAP_SIZE - 1) |->
                  LET index == (z * MAP_SIZE + x) * 2
                  IN  MapTileType_from_u16(
                          from_le_bytes(buffer[index + 1], buffer[index + 2]))]]]

\* GameMap::get_tile (x and z are usize)
GameMap_get_tile(map_tiles, x, z) ==
    IF x < MAP_SIZE /\ z < MAP_SIZE
        THEN map_tiles[z][x]
        ELSE "Grass"

CallMapTileTypeFromU16 ==
    /\ fn = NoCall
    /\ \E value \in U16Values :
         fn' = [name |-> "MapTileType::from_u16", value |-> value,
                tile |-> MapTileType_from_u16(value)]
    /\ UNCHANGED <<world, history, extra>>

CallGameMapLoadFromFile ==
    /\ fn = NoCall
    /\ \E buffer \in ByteFiles :
       \E r \in {GameMap_load_from_file(buffer)} :
         fn' = [name |-> "GameMap::load_from_file", file |-> buffer,
                ok |-> r.ok, tiles |-> r.tiles]
    /\ UNCHANGED <<world, history, extra>>

CallGameMapGetTile ==
    /\ fn = NoCall
    /\ \E x \in 0..(MAP_SIZE + 1), z \in 0..(MAP_SIZE + 1) :
         fn' = [name |-> "GameMap::get_tile", x |-> x, z |-> z,
                tile |-> GameMap_get_tile(GameMap_new, x, z)]
    /\ UNCHANGED <<world, history, extra>>

\* --- the map visualizer (utils) ---

TOOL_MAP_WIDTH == 1000
TOOL_MAP_HEIGHT == 1000

Tool_from_u16(value) ==
    CASE value = 0 -> "Grass"
      [] value = 1 -> "Water"
      [] value = 2 -> "Desert"
      [] value = 3 -> "Stone"
      [] value = 4 -> "Wood"
      [] OTHER -> "Unknown"

\* load_map_data: read_exact of 2 bytes until it fails
load_map_data(file) == [k \in 1..Len(file) |-> Tool_from_u16(file[k])]

\* create_png_from_tiles: the pixel tile i is painted at, if any
PixelOf(i) ==
    [x |-> i % TOOL_MAP_WIDTH, y |-> i \div TOOL_MAP_WIDTH,
     painted |-> (i \div TOOL_MAP_WIDTH) < TOOL_MAP_HEIGHT]

CallToolFromU16 ==
    /\ fn = NoCall
    /\ \E value \in U16Values :
         fn' = [name |-> "tool from_u16", value |-> value, tile |-> Tool_from_u16(value)]
    /\ UNCHANGED <<world, history, extra>>

CallCreatePng ==
    /\ fn = NoCall
    /\ \E file \in MapFiles :
       \E i \in 0..(Len(file) - 1) :
         fn' = [name |-> "create_png_from_tiles", file |-> file, index |-> i,
                pixel |-> PixelOf(i), tile |-> load_map_data(file)[i + 1]]
    /\ UNCHANGED <<world, history, extra>>

\* --- the viewer's chunk ---

\* translations on either side of the origin, in whole units
FnTranslations == (-(2 * CHUNK_SIZE * TILE_SIZE))..(2 * CHUNK_SIZE * TILE_SIZE)

\* the chunk manage_world_chunks takes as the window's centre, and the chunk
\* update_explored_chunks inserts into an empty explored set
CallPlayerChunk ==
    /\ fn = NoCall
    /\ \E x \in FnTranslations, z \in FnTranslations :
         fn' = [name |-> "player_chunk", translation |-> <<x, z>>,
                chunk |-> player_chunk(<<x, z>>),
                explored |->
                    update_explored_chunks(
                        [tiles |-> tiles, chunks |-> chunks, explored_chunks |-> {}],
                        <<x, z>>).explored_chunks]
    /\ UNCHANGED <<world, history, extra>>

\* --- the decoration policy of one tile ---

\* hash values: every residue modulo 200 (and so modulo 100 and 50), twice
HashValues == 0..399

CallTileDecorations ==
    /\ fn = NoCall
    /\ \E tile_type \in TileType, hash \in HashValues :
         fn' = [name |-> "tile_decorations", tile |-> tile_type, hash |-> hash,
                kinds |-> tile_decorations(tile_type, hash)]
    /\ UNCHANGED <<world, history, extra>>

\* --- the chunk mesh ---

\* the tile types of the chunks every tile of which is chosen freely
MeshTileTypes == {"Water", "Stone"}

\* chunks to build the mesh of: every arrangement of Water and Stone, and
\* the striped chunks of every two tile types
MeshChunks ==
    {[position |-> <<0, 0>>, tiles |-> t] :
        t \in [0..(CHUNK_SIZE - 1) -> [0..(CHUNK_SIZE - 1) -> MeshTileTypes]]}
    \cup {StripedChunk(<<0, 0>>, first, rest) : first \in TileType, rest \in TileType}

CallBuildMesh ==
    /\ fn = NoCall
    /\ \E chunk_data \in MeshChunks :
         fn' = [name |-> "build_mesh", data |-> chunk_data,
                mesh |-> build_mesh(chunk_data)]
    /\ UNCHANGED <<world, history, extra>>

\* --- the streaming window at the sizes constants.rs configures ---

\* RENDER_DISTANCE and CHUNK_SIZE as constants.rs sets them
RENDER_DISTANCE_CONFIGURED == 5
CHUNK_SIZE_CONFIGURED == 16

MAP_WIDTH_CONFIGURED == 256 * CHUNK_SIZE_CONFIGURED
MAP_HEIGHT_CONFIGURED == 256 * CHUNK_SIZE_CONFIGURED

\* the chunk of the start position, a chunk in the map's corner and one on
\* its far edge
ConfiguredCenters ==
    {<<(MAP_WIDTH_CONFIGURED \div 2) \div CHUNK_SIZE_CONFIGURED,
       (MAP_HEIGHT_CONFIGURED \div 2) \div CHUNK_SIZE_CONFIGURED>>,
     <<0, 0>>,
     <<(MAP_WIDTH_CONFIGURED - 1) \div CHUNK_SIZE_CONFIGURED, 7>>}

\* the coordinates the load loop visits around the viewer's chunk and that
\* pass the boundary check: the keys resident after manage_world_chunks
ConfiguredWindow(center) ==
    LET max_chunk_x_configured == MAP_WIDTH_CONFIGURED \div CHUNK_SIZE_CONFIGURED
        max_chunk_y_configured == MAP_HEIGHT_CONFIGURED \div CHUNK_SIZE_CONFIGURED
    IN  {chunk_pos \in
             {<<center[1] + x, center[2] + z>> :
                 x \in (-RENDER_DISTANCE_CONFIGURED)..RENDER_DISTANCE_CONFIGURED,
                 z \in (-RENDER_DISTANCE_CONFIGURED)..RENDER_DISTANCE_CONFIGURED} :
             /\ chunk_pos[1] >= 0
             /\ chunk_pos[1] < max_chunk_x_configured
             /\ chunk_pos[2] >= 0
             /\ chunk_pos[2] < max_chunk_y_configured}

CallConfiguredWindow ==
    /\ fn = NoCall
    /\ \E center \in ConfiguredCenters :
         fn' = [name |-> "window", center |-> center, keys |-> ConfiguredWindow(center)]
    /\ UNCHANGED <<world, history, extra>>

NextCalls ==
    \/ CallFromU16
    \/ CallSpawnChunkDecorations
    \/ CallMapTileTypeFromU16
    \/ CallGameMapLoadFromFile
    \/ CallGameMapGetTile
    \/ CallToolFromU16
    \/ CallCreatePng
    \/ CallPlayerChunk
    \/ CallTileDecorations
    \/ CallBuildMesh
    \/ CallConfiguredWindow

SpecCalls == Init /\ [][NextCalls]_vars

----------------------------------------------------------------------------
(* setup's read of the map file, byte by byte.  The file is read through a *)
(* BufReader: a read of the 2-byte buffer is served from the BufReader's   *)
(* own buffer, which one read of the file refills when it is empty.  A     *)
(* read of the file may fail, and may deliver any number of bytes from 1   *)
(* up to what it was asked for.                                            *)

\* BufReader's capacity (even, and larger than the 2 bytes asked for)
HalfCapacity == 2
BufCapacity == 2 * HalfCapacity

Min(a, b) == IF a < b THEN a ELSE b

InitLoad ==
    /\ tiles = <<>>
    /\ chunks = EmptyMap
    /\ player = StartPosition
    /\ chunk_border_visible = FALSE
    /\ entities = {}
    /\ commands = <<>>
    /\ ran = {}
    /\ f3_presses = 0
    /\ viewer_chunk = {}
    /\ probe_builds = {}
    /\ probe_rebuilt = FALSE
    /\ probe_bordered = FALSE
    /\ probe_kills = {}
    /\ fn = NoCall
    /\ explored_chunks = {}
    /\ \E file \in ByteFiles :
         io = [state |-> "start", file |-> file, offset |-> 0, buffered |-> <<>>,
               opened |-> FALSE, failed |-> FALSE]

\* File::open: on Err the default world, on Ok the read loop
OpenMapFile ==
    /\ io.state = "start"
    /\ \E ok \in BOOLEAN :
         IF ok
             THEN /\ io' = [io EXCEPT !.state = "reading", !.opened = TRUE]
                  /\ tiles' = tiles
             ELSE /\ io' = [io EXCEPT !.state = "loaded"]
                  /\ tiles' = DefaultTiles
    /\ UNCHANGED <<chunks, player, chunk_border_visible, entities, commands, ran,
                   f3_presses, history, fn, explored_chunks>>

\* what reader.read(&mut buffer) does once the BufReader holds `bytes`
\* (r.offset bytes of the file consumed): bytes_read = 0 ends the loop,
\* 2 pushes a tile, 1 pushes nothing
ServeRead(r, bytes) ==
    LET bytes_read == Min(2, Len(bytes))
        rest == SubSeq(bytes, bytes_read + 1, Len(bytes))
    IN  [io |-> [r EXCEPT !.buffered = rest,
                          !.state = IF bytes_read = 0 THEN "loaded" ELSE "reading"],
         tiles |-> IF bytes_read = 2
                       THEN Append(tiles, from_u16(from_le_bytes(bytes[1], bytes[2])))
                       ELSE tiles]

\* one iteration of `while let Ok(bytes_read) = reader.read(&mut buffer)`
ReadMapFile ==
    /\ io.state = "reading"
    /\ IF io.buffered # <<>>
           THEN \E r \in {ServeRead(io, io.buffered)} :
                    io' = r.io /\ tiles' = r.tiles
           ELSE LET remaining == Len(io.file) - io.offset
                IN  \/ \* the read of the file fails: the loop ends
                       /\ io' = [io EXCEPT !.state = "loaded", !.failed = TRUE]
                       /\ tiles' = tiles
                    \/ \E n \in (IF remaining = 0 THEN {0}
                                  ELSE 1..Min(BufCapacity, remaining)) :
                       \E r \in {ServeRead([io EXCEPT !.offset = io.offset + n],
                                          SubSeq(io.file, io.offset + 1, io.offset + n))} :
                           io' = r.io /\ tiles' = r.tiles
    /\ UNCHANGED <<chunks, player, chunk_border_visible, entities, commands, ran,
                   f3_presses, history, fn, explored_chunks>>

NextLoad == OpenMapFile \/ ReadMapFile

SpecLoad == InitLoad /\ [][NextLoad]_vars

----------------------------------------------------------------------------
(* Properties.                                                             *)

Window(v) ==
    {<<v[1] + dx, v[2] + dz>> :
        dx \in (-RENDER_DISTANCE)..RENDER_DISTANCE,
        dz \in (-RENDER_DISTANCE)..RENDER_DISTANCE}

ValidBounds ==
    (0..((MAP_WIDTH \div CHUNK_SIZE) - 1)) \X (0..((MAP_HEIGHT \div CHUNK_SIZE) - 1))

ClippedWindow(v) == Window(v) \cap ValidBounds

MaxWindow == (2 * RENDER_DISTANCE + 1) * (2 * RENDER_DISTANCE + 1)

EntitiesAt(c) == {e \in ChunkEntities(entities) : e.pos = c}

\* C1: once manage_world_chunks has run for a viewer in chunk v, the resident
\* key set is exactly the (2R+1) x (2R+1) window around v clipped to the map:
\* every in-window in-bounds coordinate is resident and nothing else is.
C1_WindowExact ==
    \A v \in viewer_chunk : DOMAIN chunks = ClippedWindow(v)

\* the viewer's window at the map corner is clipped and resident
C1_Witness ==
    /\ viewer_chunk = {<<0, 0>>}
    /\ chunks # EmptyMap
    /\ Cardinality(DOMAIN chunks) < MaxWindow
    /\ \A c \in DOMAIN chunks : c[1] >= 0 /\ c[2] >= 0

\* C2 as stated: in every reachable state the resident key set is the clipped
\* window of the viewer's current chunk.
C2_ExactAtAllTimes ==
    DOMAIN chunks = ClippedWindow(player_chunk(player))

\* C2 amended: the map is empty until manage_world_chunks first runs, and
\* whenever the viewer's current chunk is the chunk the latest run computed,
\* the resident key set is that chunk's clipped window.
C2_ExactWhenCurrent ==
    /\ viewer_chunk = {} => chunks = EmptyMap
    /\ viewer_chunk = {player_chunk(player)}
           => DOMAIN chunks = ClippedWindow(player_chunk(player))

\* both systems ran in the frame and the map is the window of the chunk the
\* viewer has moved to
C2_Witness ==
    /\ ran = CoreSystems
    /\ player_chunk(player) # player_chunk(StartPosition)
    /\ viewer_chunk = {player_chunk(player)}
    /\ DOMAIN chunks = ClippedWindow(player_chunk(player))

\* C3: at every tick boundary the coordinates of the live chunk entities are
\* the resident keys, each stored ChunkData sits under its own position, every
\* resident coordinate has exactly one entity, and there are never more than
\* (2R+1)^2 live chunk entities.
C3_EntitiesMatchResidency ==
    /\ Cardinality(ChunkEntities(entities)) <= MaxWindow
    /\ ran = {} =>
         /\ {e.pos : e \in ChunkEntities(entities)} = DOMAIN chunks
         /\ \A c \in DOMAIN chunks :
              /\ chunks[c].position = c
              /\ Cardinality(EntitiesAt(c)) = 1

\* a tick boundary after the viewer moved away from ProbeChunk and back
C3_Witness ==
    /\ ran = {}
    /\ probe_rebuilt
    /\ ProbeChunk \in DOMAIN chunks
    /\ Cardinality(EntitiesAt(ProbeChunk)) = 1

QueuedChunkSpawns == {e \in Spawned(commands) : e.kind = "chunk"}

\* C4: no coordinate is carried by two live chunk entities, nor by two chunk
\* entities among the live ones and those queued to be spawned.
C4_NoDuplicateEntity ==
    /\ \A e1, e2 \in ChunkEntities(entities) : e1.pos = e2.pos => e1 = e2
    /\ \A e1, e2 \in QueuedChunkSpawns : e1.pos = e2.pos => e1 = e2
    /\ \A e \in QueuedChunkSpawns : EntitiesAt(e.pos) = {}

\* ProbeChunk has been rebuilt and has its entity
C4_Witness ==
    /\ probe_rebuilt
    /\ EntitiesAt(ProbeChunk) # {}

ManageStep == "manage_world_chunks" \notin ran /\ "manage_world_chunks" \in ran'

ApplyStep == ran # {} /\ ran' = {}

QueuedBy(op, before, after) ==
    {c.ent : c \in {d \in Range(SubSeq(after, Len(before) + 1, Len(after))) : d.op = op}}

\* C5: a tick that finds the viewer in v' after a tick in v evicts exactly
\* window(v) \ window(v') and builds exactly window(v') \ window(v); the
\* coordinates in both windows keep their ChunkData and their entities, and
\* nothing is queued for them.
C5_ExactDelta ==
    [][/\ (ManageStep /\ viewer_chunk # {}) =>
            LET v == CHOOSE x \in viewer_chunk : TRUE
                v2 == CHOOSE x \in viewer_chunk' : TRUE
                overlap == ClippedWindow(v) \cap ClippedWindow(v2)
                despawned == QueuedBy("despawn_recursive", commands, commands')
                spawned == QueuedBy("spawn", commands, commands')
            IN  /\ (DOMAIN chunks) \ (DOMAIN chunks') = ClippedWindow(v) \ ClippedWindow(v2)
                /\ (DOMAIN chunks') \ (DOMAIN chunks) = ClippedWindow(v2) \ ClippedWindow(v)
                /\ {e.pos : e \in despawned} = ClippedWindow(v) \ ClippedWindow(v2)
                /\ {e.pos : e \in spawned} = ClippedWindow(v2) \ ClippedWindow(v)
                /\ \A c \in overlap : chunks'[c] = chunks[c]
                /\ entities' = entities
       /\ ApplyStep =>
            /\ \A e \in entities : e.pos \in DOMAIN chunks => e \in entities'
            /\ \A e \in entities' \ entities : \A x \in entities : x.pos # e.pos
      ]_vars

\* a tick that evicts some chunks and builds ProbeChunk once more
C5_Witness ==
    /\ "manage_world_chunks" \in ran
    /\ probe_rebuilt
    /\ \E c \in Range(commands) : c.op = "despawn_recursive"
    /\ \E c \in Range(commands) : c.op = "spawn" /\ c.ent.pos = ProbeChunk

\* C6: after any tick every live mesh, border and decoration entity has a
\* live parent chunk entity whose coordinate is resident.
C6_NoOrphans ==
    ran = {} =>
        \A e \in entities :
            e.kind # "chunk" =>
                /\ e.pos \in DOMAIN chunks
                /\ \E p \in entities : IsParentOf(p, e)

\* ProbeChunk was built with borders and decorations and has been evicted
C6_Witness ==
    /\ ran = {}
    /\ probe_bordered
    /\ \E b \in probe_builds : Len(b.placements) > 0
    /\ ProbeChunk \notin DOMAIN chunks
    /\ \A e \in entities : e.pos # ProbeChunk

\* C7: get_tile_at_position gives Unknown for every position outside the map
\* and for every position inside it whose index is not below the number of
\* loaded tiles; otherwise it gives the tile stored at y * MAP_WIDTH + x. It
\* never indexes outside the tile sequence.
C7_GetTileTotal ==
    fn.name = "get_tile_at_position" =>
        /\ fn.tile \in TileType
        /\ fn.tile # OutOfBoundsPanic
        /\ IF fn.x >= 0 /\ fn.x < MAP_WIDTH /\ fn.y >= 0 /\ fn.y < MAP_HEIGHT
               THEN IF fn.y * MAP_WIDTH + fn.x >= Len(tiles)
                        THEN fn.tile = "Unknown"
                        ELSE fn.tile = tiles[fn.y * MAP_WIDTH + fn.x + 1]
               ELSE fn.tile = "Unknown"

\* a position inside the map that the truncated grid does not populate
C7_Witness ==
    /\ fn.name = "get_tile_at_position"
    /\ tiles = LoadTiles(TruncatedFile)
    /\ fn.x >= 0 /\ fn.x < MAP_WIDTH /\ fn.y >= 0 /\ fn.y < MAP_HEIGHT
    /\ fn.y * MAP_WIDTH + fn.x >= Len(tiles)
    /\ fn.tile = "Unknown"

LocalOffsets == 0..(CHUNK_SIZE - 1)

\* C8: every ChunkData that generate_chunk_from_map built for a coordinate c
\* has position c and tiles[ly][lx] equal to the grid's tile at
\* (c.x * CHUNK_SIZE + lx, c.y * CHUNK_SIZE + ly), and every build of the same
\* coordinate, before an eviction or after the reload, gave the same ChunkData.
C8_ChunkTiles ==
    /\ \A c \in DOMAIN chunks :
         /\ chunks[c].position = c
         /\ \A lx \in LocalOffsets, ly \in LocalOffsets :
              chunks[c].tiles[ly][lx] =
                  get_tile_at_position(tiles, c[1] * CHUNK_SIZE + lx, c[2] * CHUNK_SIZE + ly)
    /\ \A b1, b2 \in probe_builds : b1.data = b2.data

\* ProbeChunk reloaded from the four-quadrant map, whose tiles at local (1,0)
\* and (0,1) differ
C8_Witness ==
    /\ probe_rebuilt
    /\ tiles = LoadTiles(FullFile)
    /\ ProbeChunk \in DOMAIN chunks
    /\ chunks[ProbeChunk].tiles[0][1] = "Wood"
    /\ chunks[ProbeChunk].tiles[1][0] = "Unknown"

AllUnknown(data) ==
    \A lx \in LocalOffsets, ly \in LocalOffsets : data.tiles[ly][lx] = "Unknown"

\* C9: generate_chunk_from_map succeeds for every pair of i32 chunk
\* coordinates: it never aborts on arithmetic overflow, and a chunk that lies
\* wholly outside the map is all Unknown.
C9_AlwaysSucceeds ==
    fn.name = "generate_chunk_from_map" =>
        /\ ~fn.panicked
        /\ fn.chunk_pos \notin ValidBounds => AllUnknown(fn.data)

\* C10: every build of a chunk from the same ChunkData queued the same
\* sequence of decoration placements, whatever the tick, the order of the
\* builds or the viewer's position at the time.
C10_SameDecorations ==
    \A b1, b2 \in probe_builds :
        b1.data = b2.data => b1.placements = b2.placements

\* ProbeChunk was evicted and rebuilt, and its builds placed decorations
C10_Witness ==
    /\ probe_rebuilt
    /\ \E b \in probe_builds : Len(b.placements) >= 2

PlacedAt(kind, i, j) ==
    \E k \in 1..Len(fn.placements) :
        fn.placements[k].ent.kind = kind /\ fn.placements[k].ent.slot = <<i, j>>

\* C11: for each local tile (i, j), with h the hash of the tile's world
\* coordinate and t = tiles[j][i]: an enemy is placed iff t is not Water and
\* h mod 200 = 0, a cactus iff t is Desert and h mod 50 = 0, a tree iff t is
\* Grass and h mod 100 = 0; nothing else is placed, nothing is placed twice.
C11_DecorationPolicy ==
    fn.name = "spawn_chunk_decorations" =>
        /\ \A i \in LocalOffsets, j \in LocalOffsets :
             LET t == fn.data.tiles[j][i]
                 h == Hash(fn.data.position[1] * CHUNK_SIZE + i,
                           fn.data.position[2] * CHUNK_SIZE + j)
             IN  /\ PlacedAt("enemy", i, j) <=> (t # "Water" /\ h % 200 = 0)
                 /\ PlacedAt("cactus", i, j) <=> (t = "Desert" /\ h % 50 = 0)
                 /\ PlacedAt("tree", i, j) <=> (t = "Grass" /\ h % 100 = 0)
        /\ \A k \in 1..Len(fn.placements) :
             /\ fn.placements[k].ent.kind \in DecorationKinds
             /\ fn.placements[k].ent.slot \in LocalOffsets \X LocalOffsets
        /\ Cardinality(Range(fn.placements)) = Len(fn.placements)

\* a chunk whose columns differ, with a tree on a tile off its diagonal and
\* no decoration on the tile mirrored to it
C11_Witness ==
    /\ fn.name = "spawn_chunk_decorations"
    /\ \E i \in LocalOffsets, j \in LocalOffsets :
         /\ i # j
         /\ fn.data.tiles[j][i] = "Grass"
         /\ fn.data.tiles[i][j] = "Water"
         /\ PlacedAt("tree", i, j)
         /\ \A kind \in DecorationKinds : ~PlacedAt(kind, j, i)

\* C12: for v in 0..4 the ordinal of from_u16(v) is v, and from_u16(v) is
\* Unknown for every larger v.
C12_FromU16RoundTrip ==
    fn.name = "from_u16" =>
        /\ fn.value \in 0..4 => Ordinal(fn.tile) = fn.value
        /\ fn.value > 4 => fn.tile = "Unknown"

\* the codes 1 and 2 decoded, and one code above 4
C12_Witness ==
    /\ fn.name = "from_u16"
    /\ \/ fn.value = 1 /\ fn.tile = "Water"
       \/ fn.value = 2 /\ fn.tile = "Desert"
       \/ fn.value = 65535 /\ fn.tile = "Unknown"

\* C13: no decoder and no accessor turns out-of-range input into Grass: every
\* from_u16 gives Unknown for a value above 4, and map_loader's get_tile gives
\* Unknown outside its map.
C13_UnknownNeverGrass ==
    /\ (fn.name \in {"from_u16", "MapTileType::from_u16", "tool from_u16"} /\ fn.value > 4)
           => fn.tile = "Unknown"
    /\ (fn.name = "GameMap::get_tile" /\ (fn.x >= MAP_SIZE \/ fn.z >= MAP_SIZE))
           => fn.tile = "Unknown"

\* C16: no loader rejects a file because its length is not width * height * 2
\* bytes: load_from_file returns Ok whatever the length.
C16_SizeNeverRejected ==
    fn.name = "GameMap::load_from_file" => fn.ok

\* C17: the visualizer decodes every u16 as the game does, and the tile it
\* paints at pixel (x, y) is the tile the game addresses as (x, y).
C17_ToolAgreesWithGame ==
    /\ fn.name = "tool from_u16" => fn.tile = from_u16(fn.value)
    /\ fn.name = "create_png_from_tiles" =>
         /\ fn.pixel.painted
         /\ fn.tile = get_tile_at_position(LoadTiles(fn.file), fn.pixel.x, fn.pixel.y)

\* C14: a file of n bytes that is read without error loads as exactly n \div 2
\* tiles, tile k being from_u16 of the little-endian pair (byte 2k, byte 2k+1),
\* however the reads of the file are split.
C14_LoadsEveryPair ==
    (io.state = "loaded" /\ io.opened /\ ~io.failed) =>
        /\ Len(tiles) = Len(io.file) \div 2
        /\ \A k \in 1..Len(tiles) :
             tiles[k] = from_u16(from_le_bytes(io.file[2 * k - 1], io.file[2 * k]))

\* C15: when the file cannot be opened, or a read of it fails, setup ends with
\* the default grid: MAP_WIDTH * MAP_HEIGHT tiles, all Grass.
C15_FallbackGrid ==
    (io.state = "loaded" /\ (~io.opened \/ io.failed)) =>
        /\ Len(tiles) = MAP_WIDTH * MAP_HEIGHT
        /\ \A k \in 1..Len(tiles) : tiles[k] = "Grass"

UpdateStep ==
    "update_explored_chunks" \notin ran /\ "update_explored_chunks" \in ran'

\* C18: no step after setup changes the tile grid, only manage_world_chunks
\* changes the resident map, and update_explored_chunks changes nothing but
\* explored_chunks.
C18_FrameEffects ==
    [][/\ tiles' = tiles
       /\ chunks' # chunks => ManageStep
       /\ explored_chunks' # explored_chunks => UpdateStep
       /\ UpdateStep => UNCHANGED <<tiles, chunks, player, chunk_border_visible,
                                    entities, commands, f3_presses>>
      ]_vars

\* update_explored_chunks has run in a frame whose resident map is populated
C18_Witness ==
    /\ "update_explored_chunks" \in ran
    /\ player_chunk(player) \in explored_chunks
    /\ player_chunk(player) \in DOMAIN chunks
    /\ tiles = LoadTiles(FullFile)

\* C19: explored_chunks only grows, and a run of update_explored_chunks leaves
\* it as it was plus the viewer's current chunk (so unchanged when that chunk
\* was already in it).
C19_ExploredGrows ==
    [][/\ explored_chunks \subseteq explored_chunks'
       /\ UpdateStep =>
            /\ player_chunk(player) \in explored_chunks'
            /\ explored_chunks' = explored_chunks \cup {player_chunk(player)}
      ]_vars

\* several chunks explored, the current one among them before this frame's run
C19_Witness ==
    /\ Cardinality(explored_chunks) >= 3
    /\ "update_explored_chunks" \notin ran
    /\ player_chunk(player) \in explored_chunks

\* C20: every live decoration of local tile (i, j) of chunk c stands at the
\* world position of that tile: its parent's translation plus its own is
\* ((c.x * CHUNK_SIZE + i) * TILE_SIZE, (c.y * CHUNK_SIZE + j) * TILE_SIZE)
\* (`at` is in half units).
C20_DecorationAtTile ==
    \A e \in entities :
        e.kind \in DecorationKinds =>
            \A p \in entities :
                IsParentOf(p, e) =>
                    /\ p.at[1] + e.at[1]
                           = 2 * ((e.pos[1] * CHUNK_SIZE + e.slot[1]) * TILE_SIZE)
                    /\ p.at[2] + e.at[2]
                           = 2 * ((e.pos[2] * CHUNK_SIZE + e.slot[2]) * TILE_SIZE)

----------------------------------------------------------------------------
\* C21: for every viewer position, negative ones included, the chunk that
\* manage_world_chunks and update_explored_chunks derive is
\* floor(position / (CHUNK_SIZE * TILE_SIZE)) on each axis (a position in
\* [-CHUNK_SIZE * TILE_SIZE, 0) lies in chunk -1), and the two systems
\* derive the same chunk.
C21_FloorChunk ==
    fn.name = "player_chunk" =>
        /\ fn.chunk = <<fn.translation[1] \div (CHUNK_SIZE * TILE_SIZE),
                        fn.translation[2] \div (CHUNK_SIZE * TILE_SIZE)>>
        /\ fn.explored = {fn.chunk}

\* the border children among the entities a step queued for parent p
QueuedBordersOf(p, before, after) ==
    {e \in QueuedBy("spawn", before, after) : e.kind = "border" /\ IsParentOf(p, e)}

\* C22: a chunk built while the border overlay is enabled gets exactly four
\* border children, one along each of its four edges, and a chunk built while
\* it is disabled gets none, whatever the chunk's tiles are.
C22_BordersFollowFlag ==
    [][ManageStep =>
          \A p \in QueuedBy("spawn", commands, commands') :
              p.kind = "chunk" =>
                  LET borders == QueuedBordersOf(p, commands, commands')
                  IN  IF chunk_border_visible
                          THEN /\ Cardinality(borders) = 4
                               /\ {b.at : b \in borders} = Range(BorderTranslations)
                          ELSE borders = {}
      ]_vars

\* the biome decoration of a tile type (none for the other types)
BiomeKind(tile_type) ==
    CASE tile_type = "Desert" -> "cactus"
      [] tile_type = "Grass" -> "tree"
      [] OTHER -> "none"

\* which of the two bands placed something on a tile of the type for the hash
Outcome(tile_type, hash) ==
    LET placed == Range(tile_decorations(tile_type, hash))
    IN  [enemy |-> "enemy" \in placed, biome |-> BiomeKind(tile_type) \in placed]

Occurs(tile_type, enemy, biome) ==
    \E hash \in HashValues : Outcome(tile_type, hash) = [enemy |-> enemy, biome |-> biome]

\* C23 as stated: on Grass and on Desert each of the four outcomes (enemy
\* only, decoration only, both, neither) occurs for some hash value.
C23_AllFourOutcomes ==
    (fn.name = "tile_decorations" /\ fn.tile \in {"Grass", "Desert"}) =>
        \A enemy \in BOOLEAN, biome \in BOOLEAN : Occurs(fn.tile, enemy, biome)

\* C23 amended: on Grass and on Desert the outcomes decoration only, both and
\* neither occur, and enemy only never does: a hash that is 0 modulo 200 is 0
\* modulo 100 and modulo 50, so every enemy on such a tile comes with the
\* tile's tree or cactus, placed after it; an enemy stands alone only on a
\* Stone, Wood or Unknown tile, and nothing is placed on Water.
C23_EnemyForcesDecoration ==
    fn.name = "tile_decorations" =>
          /\ fn.tile \in {"Grass", "Desert"} =>
                /\ Occurs(fn.tile, FALSE, TRUE)
                /\ Occurs(fn.tile, TRUE, TRUE)
                /\ Occurs(fn.tile, FALSE, FALSE)
                /\ ~Occurs(fn.tile, TRUE, FALSE)
          /\ (fn.tile \in {"Grass", "Desert"} /\ fn.hash % 200 = 0)
                => fn.kinds = <<"enemy", BiomeKind(fn.tile)>>
          /\ (fn.tile \in {"Stone", "Wood", "Unknown"} /\ fn.hash % 200 = 0)
                => fn.kinds = <<"enemy">>
          /\ fn.tile = "Water" => fn.kinds = <<>>

\* a Desert tile whose hash is in the enemy band: enemy and cactus together
C23_Witness ==
    /\ fn.name = "tile_decorations"
    /\ fn.tile = "Desert"
    /\ fn.hash = 200
    /\ fn.kinds = <<"enemy", "cactus">>

\* the local tiles of a chunk that are not Water
NonWaterTiles(data) ==
    {t \in (0..(CHUNK_SIZE - 1)) \X (0..(CHUNK_SIZE - 1)) : data.tiles[t[2]][t[1]] # "Water"}

\* the corners of the square [x, x + TILE_SIZE] x [y, y + TILE_SIZE] at height 0
QuadCorners(x, y) ==
    {<<x * TILE_SIZE + dx, 0, y * TILE_SIZE + dz>> : dx \in {0, TILE_SIZE}, dz \in {0, TILE_SIZE}}

\* the k-th quad of the buffers (k from 0) is the quad of tile t
IsQuadOf(mesh, k, t, data) ==
    /\ {mesh.positions[4 * k + n] : n \in 1..4} = QuadCorners(t[1], t[2])
    /\ \A n \in 1..4 : mesh.colors[4 * k + n] = get_color(data.tiles[t[2]][t[1]])

\* C24: the mesh of a chunk has one quad per non-Water tile and nothing else:
\* with N non-Water tiles (Unknown ones included) the one vertex buffer holds
\* 4N vertices and the one index buffer 6N indices; the quad of local tile
\* (x, y) spans [x, x+1] x [y, y+1] tiles at height 0 and its four vertices
\* carry the colour of the tile's type.
C24_QuadPerTile ==
    fn.name = "build_mesh" =>
        LET N == Cardinality(NonWaterTiles(fn.data))
            mesh == fn.mesh
        IN  /\ Len(mesh.positions) = 4 * N
            /\ Len(mesh.colors) = 4 * N
            /\ Len(mesh.indices) = 6 * N
            /\ mesh.vertex_count = 4 * N
            /\ (mesh.positions = <<>>) <=> (MeshTiles(fn.data) = {})
            /\ \A t \in NonWaterTiles(fn.data) :
                   \E k \in 0..(N - 1) : IsQuadOf(mesh, k, t, fn.data)
            /\ \A k \in 0..(N - 1) :
                   \E t \in NonWaterTiles(fn.data) : IsQuadOf(mesh, k, t, fn.data)

\* a chunk with a Water column and an Unknown column: the Unknown tiles have
\* their quads
C24_Witness ==
    /\ fn.name = "build_mesh"
    /\ fn.data = StripedChunk(<<0, 0>>, "Water", "Unknown")
    /\ Len(fn.mesh.positions) = 4 * CHUNK_SIZE * (CHUNK_SIZE - 1)
    /\ fn.mesh.colors[1] = <<10, 0, 10>>

\* the Y component of (b - a) x (c - a)
CrossY(a, b, c) == (b[3] - a[3]) * (c[1] - a[1]) - (b[1] - a[1]) * (c[3] - a[3])

\* C25: every index is below the vertex count, the k-th quad's six indices
\* refer to vertices 4k .. 4k+3 only, and both triangles of every quad are
\* wound the same way, with the face normal pointing up (+Y).
C25_IndicesAndWinding ==
    fn.name = "build_mesh" =>
        LET mesh == fn.mesh
            quads == Len(mesh.positions) \div 4
            vertex(i) == mesh.positions[i + 1]
        IN  /\ \A n \in 1..Len(mesh.indices) :
                   mesh.indices[n] >= 0 /\ mesh.indices[n] < Len(mesh.positions)
            /\ Len(mesh.indices) = 6 * quads
            /\ \A k \in 0..(quads - 1) :
                 /\ {mesh.indices[6 * k + n] : n \in 1..6} = (4 * k)..(4 * k + 3)
                 /\ \A tri \in 0..1 :
                      LET a == vertex(mesh.indices[6 * k + 3 * tri + 1])
                          b == vertex(mesh.indices[6 * k + 3 * tri + 2])
                          c == vertex(mesh.indices[6 * k + 3 * tri + 3])
                      IN  /\ CrossY(a, b, c) > 0
                          /\ a[2] = b[2] /\ b[2] = c[2]
                 /\ \A n \in 1..4 : mesh.normals[4 * k + n] = <<0, 1, 0>>

\* a chunk without Water: the last quad's triangles index the last four vertices
C25_Witness ==
    /\ fn.name = "build_mesh"
    /\ NonWaterTiles(fn.data) = (0..(CHUNK_SIZE - 1)) \X (0..(CHUNK_SIZE - 1))
    /\ Len(fn.mesh.indices) = 6 * CHUNK_SIZE * CHUNK_SIZE
    /\ fn.mesh.indices[Len(fn.mesh.indices)] = 4 * CHUNK_SIZE * CHUNK_SIZE - 2

\* every tile of the chunk is Water
WaterOnly(data) ==
    \A ly \in 0..(CHUNK_SIZE - 1), lx \in 0..(CHUNK_SIZE - 1) : data.tiles[ly][lx] = "Water"

\* the commands a step queued that concern coordinate c
QueuedFor(c, before, after) ==
    {d \in Range(SubSeq(after, Len(before) + 1, Len(after))) : d.ent.pos = c}

\* C26: a chunk all of whose tiles are Water has no vertices, yet it becomes
\* resident and gets one placeholder entity that carries its coordinate at
\* translation (c.x * CHUNK_SIZE * TILE_SIZE, 0, c.y * CHUNK_SIZE * TILE_SIZE)
\* (`at` is in half units) and has no children; nothing is queued for it
\* while it stays in the window, and it is evicted, entity and map entry,
\* when it leaves the window.
C26_WaterOnlyChunk ==
    [][/\ ManageStep =>
            \A c \in ValidBounds :
                LET v2 == CHOOSE x \in viewer_chunk' : TRUE
                    queued == QueuedFor(c, commands, commands')
                IN  /\ (c \in DOMAIN chunks' /\ WaterOnly(chunks'[c])) =>
                          /\ build_mesh(chunks'[c]).positions = <<>>
                          /\ build_mesh(chunks'[c]).vertex_count = 0
                          /\ c \in ClippedWindow(v2)
                          /\ IF c \in DOMAIN chunks
                                 THEN queued = {} /\ chunks'[c] = chunks[c]
                                 ELSE \E p \in queued :
                                        /\ queued = {p}
                                        /\ p.op = "spawn"
                                        /\ p.ent.kind = "chunk"
                                        /\ p.ent.at = <<2 * c[1] * CHUNK_SIZE * TILE_SIZE,
                                                        2 * c[2] * CHUNK_SIZE * TILE_SIZE>>
                    /\ (c \in DOMAIN chunks /\ WaterOnly(chunks[c])
                            /\ c \notin ClippedWindow(v2)) =>
                          /\ c \notin DOMAIN chunks'
                          /\ queued = {DespawnRecursiveCmd(e) : e \in EntitiesAt(c)}
                          /\ queued # {}
       /\ ApplyStep =>
            \A c \in ValidBounds :
                IF c \in DOMAIN chunks'
                    THEN WaterOnly(chunks'[c]) =>
                            \E p \in entities' :
                                /\ {e \in entities' : e.pos = c} = {p}
                                /\ p.kind = "chunk"
                                /\ p.at = <<2 * c[1] * CHUNK_SIZE * TILE_SIZE,
                                            2 * c[2] * CHUNK_SIZE * TILE_SIZE>>
                    ELSE \A e \in entities' : e.pos # c
      ]_vars

\* the all-Water chunk (2, 0) has left the window: its placeholder is live,
\* its eviction is queued and its map entry is gone
C26_Witness ==
    /\ "manage_world_chunks" \in ran
    /\ WaterOnly(generate_chunk_from_map(tiles, <<2, 0>>, FALSE).data)
    /\ <<2, 0>> \notin DOMAIN chunks
    /\ \E p \in entities :
         /\ p.kind = "chunk" /\ p.pos = <<2, 0>>
         /\ p.at = <<4 * CHUNK_SIZE * TILE_SIZE, 0>>
         /\ {e \in entities : e.pos = <<2, 0>>} = {p}
         /\ DespawnRecursiveCmd(p) \in Range(commands)

\* C27: with the configured RENDER_DISTANCE the streaming window is a 3x3
\* grid of chunks, one chunk in each direction from the viewer, so at most 9
\* chunks are resident.
C27_ThreeByThree ==
    fn.name = "window" =>
        /\ Cardinality(fn.keys) <= 9
        /\ \A c \in fn.keys :
              /\ c[1] - fn.center[1] \in -1..1
              /\ c[2] - fn.center[2] \in -1..1

\* C28: player_movement keeps the viewer's x in [0, (MAP_WIDTH - 1) * TILE_SIZE]
\* and z in [0, (MAP_HEIGHT - 1) * TILE_SIZE]; so the viewer's chunk is always
\* within the valid chunk bounds, it is resident once manage_world_chunks has
\* run (the resident set is then never empty), and every explored chunk is
\* within the bounds.
C28_ViewerInBounds ==
    /\ player[1] >= 0 /\ player[1] <= (MAP_WIDTH - 1) * TILE_SIZE
    /\ player[2] >= 0 /\ player[2] <= (MAP_HEIGHT - 1) * TILE_SIZE
    /\ player_chunk(player) \in ValidBounds
    /\ InWorldBounds(player_chunk(player))
    /\ viewer_chunk # {} => (chunks # EmptyMap /\ viewer_chunk \subseteq DOMAIN chunks)
    /\ ("manage_world_chunks" \in ran /\ viewer_chunk = {player_chunk(player)})
           => player_chunk(player) \in DOMAIN chunks
    /\ explored_chunks \subseteq ValidBounds

\* the viewer has been to the chunks at all four edges of the map and stands
\* at the largest x the clamp allows; its chunk there is explored and resident
C28_Witness ==
    /\ player = <<(MAP_WIDTH - 1) * TILE_SIZE, StartPosition[2]>>
    /\ \E c \in explored_chunks : c[2] = max_chunk_y - 1
    /\ \E c \in explored_chunks : c[2] = 0
    /\ \E c \in explored_chunks : c[1] = 0
    /\ player_chunk(player) \in explored_chunks
    /\ player_chunk(player) \in DOMAIN chunks
    /\ ran = {}

ToggleStep == "toggle_chunk_borders" \notin ran /\ "toggle_chunk_borders" \in ran'

\* the live border children of chunk entity p
BordersOf(p, ents) == {e \in ents : e.kind = "border" /\ IsParentOf(p, e)}

EnemyTiles(data) ==
    {t \in (0..(CHUNK_SIZE - 1)) \X (0..(CHUNK_SIZE - 1)) :
        /\ data.tiles[t[2]][t[1]] # "Water"
        /\ Hash(data.position[1] * CHUNK_SIZE + t[1],
                data.position[2] * CHUNK_SIZE + t[2]) % 200 = 0}

EnemySlots(c, ents) == {e.slot : e \in {x \in ents : x.kind = "enemy" /\ x.pos = c}}

\* C30: the kill of an enemy by shooting_system is not remembered: a chunk
\* that is built again after an enemy of it was shot gets an enemy on that
\* tile again, and the enemies of a freshly built chunk are those of the
\* decoration policy whatever was shot before.
C30_KillsNotRemembered ==
    [][/\ ManageStep =>
            \A c \in (DOMAIN chunks') \ (DOMAIN chunks) :
                /\ EnemySlots(c, QueuedBy("spawn", commands, commands'))
                       = EnemyTiles(chunks'[c])
                /\ c = ProbeChunk =>
                       probe_kills \subseteq
                           EnemySlots(c, QueuedBy("spawn", commands, commands'))
       /\ ApplyStep =>
            \A p \in ChunkEntities(entities') \ ChunkEntities(entities) :
                /\ {e.slot : e \in {x \in entities' : x.kind = "enemy" /\ IsParentOf(p, x)}}
                       = EnemyTiles(chunks'[p.pos])
                /\ p.pos = ProbeChunk =>
                       probe_kills \subseteq EnemySlots(ProbeChunk, entities')
       /\ \A b1, b2 \in probe_builds' : b1 = b2
      ]_vars

\* an enemy of ProbeChunk was shot, and an enemy stands on its tile: the
\* chunk has been evicted and built again since
C30_Witness ==
    /\ ran = {}
    /\ probe_kills # {}
    /\ probe_rebuilt
    /\ \E e \in entities :
         e.kind = "enemy" /\ e.pos = ProbeChunk /\ e.slot \in probe_kills

====
